---------------------------- MODULE Spec2Model ----------------------------
(***************************************************************************)
(* String Analyzer service (NestJS + TypeORM): the analysis of a string,   *)
(* the content-addressed store, the structured filter path and the         *)
(* natural-language filter translator.                                      *)
(*                                                                         *)
(* A JavaScript string is a sequence of one-character strings.             *)
(***************************************************************************)
EXTENDS Integers, Sequences, FiniteSets, TLC

VARIABLES store, call, resp

vars == <<store, call, resp>>

----------------------------------------------------------------------------
(* Characters *)

Lower == <<"a","b","c","d","e","f","g","h","i","j","k","l","m","n","o","p","q","r","s","t","u","v","w","x","y","z">>

Upper == <<"A","B","C","D","E","F","G","H","I","J","K","L","M","N","O","P","Q","R","S","T","U","V","W","X","Y","Z">>

Digit == <<"0","1","2","3","4","5","6","7","8","9">>

\* The printable ASCII characters, in code order starting at code 32 (the grave
\* accent, code 96, is spelled out: it is no character of any modelled input).
Ascii == <<" ","!","\"","#","$","%","&","'","(",")","*","+",",","-",".","/","0","1","2","3","4","5","6","7","8","9",":",";","<","=",">","?","@","A","B","C","D","E","F","G","H","I","J","K","L","M","N","O","P","Q","R","S","T","U","V","W","X","Y","Z","[","\\","]","^","_","(grave)","a","b","c","d","e","f","g","h","i","j","k","l","m","n","o","p","q","r","s","t","u","v","w","x","y","z","{","|","}","~">>

IndexOf(seq, c) == IF \E i \in DOMAIN seq : seq[i] = c
                   THEN CHOOSE i \in DOMAIN seq : seq[i] = c
                   ELSE 0

Range(seq) == {seq[i] : i \in DOMAIN seq}

\* charCodeAt(0) of a printable ASCII character.
CharCodes == [c \in Range(Ascii) |-> IndexOf(Ascii, c) + 31]

charCode(c) == CharCodes[c]

Digits == Range(Digit)

LowerLetters == Range(Lower)

UpperLetters == Range(Upper)

IsDigit(c) == c \in Digits

IsLowerLetter(c) == c \in LowerLetters

IsUpperLetter(c) == c \in UpperLetters

\* \s of a JavaScript regular expression, and the characters trim() strips.
IsWhitespace(c) == c \in {" ", "\t", "\n"}

LowerOf == [c \in UpperLetters |-> Lower[IndexOf(Upper, c)]]

toLowerCaseChar(c) == IF IsUpperLetter(c) THEN LowerOf[c] ELSE c

\* String.prototype.toLowerCase
toLowerCase(s) == [i \in DOMAIN s |-> toLowerCaseChar(s[i])]

RECURSIVE trimStart(_)
trimStart(s) == IF s # <<>> /\ IsWhitespace(Head(s)) THEN trimStart(Tail(s)) ELSE s

RECURSIVE trimEnd(_)
trimEnd(s) == IF s # <<>> /\ IsWhitespace(s[Len(s)])
              THEN trimEnd(SubSeq(s, 1, Len(s) - 1))
              ELSE s

\* String.prototype.trim
trim(s) == trimEnd(trimStart(s))

\* s.split('').reverse()
reverse(s) == [i \in DOMAIN s |-> s[Len(s) + 1 - i]]

\* The end of the run of characters satisfying IsWhitespace that starts at i
\* (i - 1 when s[i] is no whitespace).
RECURSIVE wsRunEnd(_, _)
wsRunEnd(s, i) == IF i <= Len(s) /\ IsWhitespace(s[i]) THEN wsRunEnd(s, i + 1) ELSE i - 1

\* s.split(/\s+/): the pieces between the runs of whitespace; a leading or a
\* trailing run leaves an empty piece, and the empty string gives one empty piece.
RECURSIVE splitOnWhitespace(_, _, _, _)
splitOnWhitespace(s, i, cur, out) ==
    IF i > Len(s) THEN Append(out, cur)
    ELSE IF IsWhitespace(s[i])
         THEN splitOnWhitespace(s, wsRunEnd(s, i) + 1, <<>>, Append(out, cur))
         ELSE splitOnWhitespace(s, i + 1, Append(cur, s[i]), out)

split(s) == splitOnWhitespace(s, 1, <<>>, <<>>)

\* parseInt(digits, 10) of a non-empty run of decimal digits.
RECURSIVE parseInt(_)
parseInt(ds) == IF ds = <<>> THEN 0
                ELSE 10 * parseInt(SubSeq(ds, 1, Len(ds) - 1)) + (charCode(ds[Len(ds)]) - charCode("0"))

----------------------------------------------------------------------------
(* Analysis of a value: StringAnalyzerService.analyzeAndSave, lines 111-146 *)

\* The digest stands for crypto's SHA-256: a deterministic function of the raw
\* characters into a digest space of DigestSpace values, so that two different
\* values can share a digest.
DigestSpace == 61

RECURSIVE polyHash(_, _)
polyHash(s, acc) == IF s = <<>> THEN acc
                    ELSE polyHash(Tail(s), (acc * 31 + charCode(Head(s))) % DigestSpace)

sha256Hash(value) == polyHash(value, 0)

normalizedCaseKept(value) == SelectSeq(value, LAMBDA c : IsLowerLetter(c) \/ IsDigit(c))

normalized(value) == SelectSeq(toLowerCase(value), LAMBDA c : IsLowerLetter(c) \/ IsDigit(c))

isPalindrome(value) == normalized(value) = reverse(normalized(value))

uniqueCharacters(value) == Cardinality({value[i] : i \in DOMAIN value})

wordCount(value) == IF trim(value) = <<>> THEN 0 ELSE Len(split(trim(value)))

characterFrequencyMap(value) ==
    [c \in {value[i] : i \in DOMAIN value} |->
        Cardinality({i \in DOMAIN value : value[i] = c})]

properties(value) ==
    [length                  |-> Len(value),
     is_palindrome           |-> isPalindrome(value),
     unique_characters       |-> uniqueCharacters(value),
     word_count              |-> wordCount(value),
     sha256_hash             |-> sha256Hash(value),
     character_frequency_map |-> characterFrequencyMap(value)]

\* repo.create({ id, value, properties })
createEntity(value) ==
    [id |-> sha256Hash(value), value |-> value, properties |-> properties(value)]

----------------------------------------------------------------------------
(* The repository: the table of StringAnalyzer rows, id the primary key *)

repoFindById(id) == {e \in store : e.id = id}

repoFindByValue(value) == {e \in store : e.value = value}

\* INSERT of a row whose id is not in the table.
repoInsert(e) == store \cup {e}

\* UPDATE of the row with e's id to e's columns.
repoUpdate(e) == {r \in store : r.id # e.id} \cup {e}

\* DELETE of the row with this id (no row: nothing happens).
repoRemoveEveryRow(id) == {}

repoRemove(id) == {r \in store : r.id # id}

PrimaryKey == \A e1, e2 \in store : e1.id = e2.id => e1 = e2

----------------------------------------------------------------------------
(* Results *)

NoResult == [kind |-> "none", msg |-> ""]

Created == [kind |-> "Created", msg |-> ""]

Ok == [kind |-> "Ok", msg |-> ""]

NoContent == [kind |-> "NoContent", msg |-> ""]

ConflictException(m) == [kind |-> "Conflict", msg |-> m]

BadRequestException(m) == [kind |-> "BadRequest", msg |-> m]

UnprocessableEntityException(m) == [kind |-> "UnprocessableEntity", msg |-> m]

NotFoundException(m) == [kind |-> "NotFound", msg |-> m]

\* The response of a controller handler: the status of the result, whether the
\* handler ran a query on the store, the filters it built and the rows returned.
NoResp == [handler |-> "", kind |-> "none", msg |-> "", queried |-> FALSE,
           filters |-> <<>>, data |-> {}, count |-> 0, input |-> <<>>]

Response(handler, input, result, queried, filters, data) ==
    [handler |-> handler, kind |-> result.kind, msg |-> result.msg, queried |-> queried,
     filters |-> filters, data |-> data, count |-> Cardinality(data), input |-> input]

----------------------------------------------------------------------------
(* Inputs of the write path *)

\* The values posted, deleted and looked up while requests interleave: "ab" and
\* "Aaa" share a digest, " " trims to the empty string.
WriteValues == {<<"a","b">>, <<"A","a","a">>, <<"b">>, <<" ">>}

\* The requests in flight at once.
Procs == {1, 2}

Idle == [pc |-> "idle", op |-> "", value |-> <<>>, result |-> NoResult]

Done(op, value, result) == [pc |-> "done", op |-> op, value |-> value, result |-> result]

----------------------------------------------------------------------------
(* StringAnalyzerService.analyzeAndSave *)

\* The rows findOne({ where: { id: sha256Hash } }) finds.
existingByIdSkipped(value) == {}

existingById(value) == repoFindById(sha256Hash(value))

\* Lines 97-123: the checks of the argument and the duplicate pre-check, up to
\* the point where the call awaits repo.save.
analyzePreCheck(value) ==
    IF trim(value) = <<>>
    THEN BadRequestException("Invalid request body or missing \"value\" field")
    ELSE IF existingById(value) # {}
         THEN ConflictException("String analysis already exists")
         ELSE NoResult

\* The catch block, lines 162-173: an error that is none of the three known
\* exceptions is rethrown as UnprocessableEntityException.
analyzeCatch(err) ==
    IF err.kind \in {"BadRequest", "Conflict", "UnprocessableEntity"}
    THEN err
    ELSE UnprocessableEntityException("Internal Server Error")

\* What the driver throws when an INSERT violates the primary key.
QueryFailedError == [kind |-> "QueryFailedError", msg |-> "duplicate key value violates unique constraint"]

AnalyzeStart(p, value) ==
    /\ call[p].pc = "idle"
    /\ call' = [call EXCEPT ![p] =
                   IF analyzePreCheck(value) = NoResult
                   THEN [pc |-> "checked", op |-> "analyze", value |-> value, result |-> NoResult]
                   ELSE Done("analyze", value, analyzeCatch(analyzePreCheck(value)))]
    /\ UNCHANGED <<store, resp>>

\* repo.save finds no row with the id and inserts the entity.
AnalyzeSaveInsert(p) ==
    /\ call[p].pc = "checked"
    /\ repoFindById(sha256Hash(call[p].value)) = {}
    /\ store' = repoInsert(createEntity(call[p].value))
    /\ call' = [call EXCEPT ![p] = Done("analyze", call[p].value, Created)]
    /\ UNCHANGED resp

\* repo.save finds a row with the id (written after this call's pre-check) and
\* updates it to the entity's columns: the call succeeds.
AnalyzeSaveUpdate(p) ==
    /\ call[p].pc = "checked"
    /\ repoFindById(sha256Hash(call[p].value)) # {}
    /\ store' = repoUpdate(createEntity(call[p].value))
    /\ call' = [call EXCEPT ![p] = Done("analyze", call[p].value, Created)]
    /\ UNCHANGED resp

\* repo.save looked for the row before the other call inserted it, and its own
\* INSERT then violates the primary key: the driver's error reaches the catch.
AnalyzeSaveRejected(p) ==
    /\ call[p].pc = "checked"
    /\ repoFindById(sha256Hash(call[p].value)) # {}
    /\ call' = [call EXCEPT ![p] = Done("analyze", call[p].value, analyzeCatch(QueryFailedError))]
    /\ UNCHANGED <<store, resp>>

----------------------------------------------------------------------------
(* StringAnalyzerService.getbyValue and deleteByValue *)

GetByValue(p, value) ==
    /\ call[p].pc = "idle"
    /\ call' = [call EXCEPT ![p] =
                   IF repoFindByValue(value) = {}
                   THEN Done("get", value, NotFoundException("String does not exist in the system"))
                   ELSE Done("get", value, Ok)]
    /\ UNCHANGED <<store, resp>>

\* findOne({ where: { value } }), up to the point where the call awaits repo.remove.
DeleteStart(p, value) ==
    /\ call[p].pc = "idle"
    /\ call' = [call EXCEPT ![p] =
                   IF repoFindByValue(value) = {}
                   THEN Done("delete", value, NotFoundException("String does not exist in the system"))
                   ELSE [pc |-> "found", op |-> "delete", value |-> value, result |-> NoResult]]
    /\ UNCHANGED <<store, resp>>

\* repo.remove(stringAnalyzer): the row with the entity's id is deleted.
DeleteRemove(p) ==
    /\ call[p].pc = "found"
    /\ store' = repoRemove(sha256Hash(call[p].value))
    /\ call' = [call EXCEPT ![p] = Done("delete", call[p].value, NoContent)]
    /\ UNCHANGED resp

\* The response is sent and the request is over.
Return(p) ==
    /\ call[p].pc = "done"
    /\ call' = [call EXCEPT ![p] = Idle]
    /\ UNCHANGED <<store, resp>>

----------------------------------------------------------------------------
(* Regular expressions of parseNaturalQuery, matched as JavaScript matches
   them: the leftmost position at which the pattern matches, the alternatives
   tried in the order written, every pattern with the i flag. *)

IsLetter(c) == IsLowerLetter(c) \/ IsUpperLetter(c)

\* The literal lit (lower case) is at position i of s, letter case ignored.
startsWithAt(s, i, lit) ==
    /\ i >= 1
    /\ i + Len(lit) - 1 <= Len(s)
    /\ \A k \in 1..Len(lit) : toLowerCaseChar(s[i + k - 1]) = lit[k]

\* /lit/i.test(s)
test(s, lit) == \E i \in 1..Len(s) : startsWithAt(s, i, lit)

\* The end of the run of digits that starts at i (i - 1 when s[i] is no digit).
RECURSIVE digitRunEnd(_, _)
digitRunEnd(s, i) == IF i <= Len(s) /\ IsDigit(s[i]) THEN digitRunEnd(s, i + 1) ELSE i - 1

\* lit\s+ matched at i: the position after the whitespace, 0 when it does not match.
afterKeyword(s, i, lit) ==
    IF startsWithAt(s, i, lit) /\ wsRunEnd(s, i + Len(lit)) >= i + Len(lit)
    THEN wsRunEnd(s, i + Len(lit)) + 1
    ELSE 0

\* The least element of a non-empty set of positions.
Leftmost(S) == CHOOSE i \in S : \A j \in S : i <= j

\* query.match(/(\d+)\s+words?/i): group 1, or <<>> when there is no match.
wordMatchAt(s, i) ==
    /\ IsDigit(s[i])
    /\ afterKeyword(s, digitRunEnd(s, i) + 1, <<>>) > 0
    /\ startsWithAt(s, afterKeyword(s, digitRunEnd(s, i) + 1, <<>>), <<"w","o","r","d">>)

wordMatch(s) ==
    LET at == {i \in 1..Len(s) : wordMatchAt(s, i)}
    IN  IF at = {} THEN <<>> ELSE SubSeq(s, Leftmost(at), digitRunEnd(s, Leftmost(at)))

\* (?:alt1|alt2|...)\s+(\d+) at position i: where group 1 starts, 0 for no match.
RECURSIVE numberGroupAt(_, _, _)
numberGroupAt(s, i, alts) ==
    IF alts = <<>> THEN 0
    ELSE LET g == afterKeyword(s, i, Head(alts))
         IN  IF g > 0 /\ g <= Len(s) /\ IsDigit(s[g]) THEN g ELSE numberGroupAt(s, i, Tail(alts))

numberMatch(s, alts) ==
    LET at == {i \in 1..Len(s) : numberGroupAt(s, i, alts) > 0}
        g  == numberGroupAt(s, Leftmost(at), alts)
    IN  IF at = {} THEN <<>> ELSE SubSeq(s, g, digitRunEnd(s, g))

\* query.match(/(?:longer than|more than)\s+(\d+)/i)
longerMatch(s) ==
    numberMatch(s, << <<"l","o","n","g","e","r"," ","t","h","a","n">>,
                      <<"m","o","r","e"," ","t","h","a","n">> >>)

\* query.match(/(?:shorter than|less than)\s+(\d+)/i)
shorterMatch(s) ==
    numberMatch(s, << <<"s","h","o","r","t","e","r"," ","t","h","a","n">>,
                      <<"l","e","s","s"," ","t","h","a","n">> >>)

\* (?:alt1|alt2|...)\s+([a-z]) at position i: where group 1 is, 0 for no match.
RECURSIVE letterGroupAt(_, _, _)
letterGroupAt(s, i, alts) ==
    IF alts = <<>> THEN 0
    ELSE LET g == afterKeyword(s, i, Head(alts))
         IN  IF g > 0 /\ g <= Len(s) /\ IsLetter(s[g]) THEN g ELSE letterGroupAt(s, i, Tail(alts))

ContainsAlternatives ==
    << <<"c","o","n","t","a","i","n","i","n","g"," ","t","h","e"," ","l","e","t","t","e","r">>,
       <<"c","o","n","t","a","i","n","i","n","g">>,
       <<"c","o","n","t","a","i","n","s">> >>

\* query.match(/(?:containing the letter|containing|contains)\s+([a-z])/i)
containsMatch(s) ==
    LET at == {i \in 1..Len(s) : letterGroupAt(s, i, ContainsAlternatives) > 0}
    IN  IF at = {} THEN <<>>
        ELSE << s[letterGroupAt(s, Leftmost(at), ContainsAlternatives)] >>

----------------------------------------------------------------------------
(* StringAnalyzerService.parseNaturalQuery *)

\* A filters object: a function from the names of its keys to their values.
NoFilters == <<>>

\* filters[key] = v
setFilter(filters, key, v) == (key :> v) @@ filters

has(filters, key) == key \in DOMAIN filters

\* Lines 41-43
withPalindrome(query, filters) ==
    IF test(query, <<"p","a","l","i","n","d","r","o","m">>)
    THEN setFilter(filters, "is_palindrome", TRUE)
    ELSE filters

\* Lines 45-50
withWordCount(query, filters) ==
    IF test(query, <<"s","i","n","g","l","e"," ","w","o","r","d">>)
    THEN setFilter(filters, "word_count", 1)
    ELSE IF wordMatch(query) # <<>>
         THEN setFilter(filters, "word_count", parseInt(wordMatch(query)))
         ELSE filters

\* Lines 52-53
withMinLengthNotShifted(query, filters) ==
    IF longerMatch(query) # <<>>
    THEN setFilter(filters, "min_length", parseInt(longerMatch(query)))
    ELSE filters

withMinLength(query, filters) ==
    IF longerMatch(query) # <<>>
    THEN setFilter(filters, "min_length", parseInt(longerMatch(query)) + 1)
    ELSE filters

\* Lines 55-56
withMaxLength(query, filters) ==
    IF shorterMatch(query) # <<>>
    THEN setFilter(filters, "max_length", parseInt(shorterMatch(query)) - 1)
    ELSE filters

\* Lines 58-63
withContainsCharacter(query, filters) ==
    IF containsMatch(query) # <<>>
    THEN setFilter(filters, "contains_character", toLowerCase(containsMatch(query)))
    ELSE filters

\* Lines 65-68
withFirstVowel(query, filters) ==
    IF test(query, <<"f","i","r","s","t"," ","v","o","w","e","l">>)
       /\ ~ (has(filters, "contains_character") /\ filters["contains_character"] # <<>>)
    THEN setFilter(filters, "contains_character", <<"a">>)
    ELSE filters

\* Lines 32-68: the filters extracted, before the consistency checks.
extractFilters(query) ==
    withFirstVowel(query,
      withContainsCharacter(query,
        withMaxLength(query,
          withMinLength(query,
            withWordCount(query,
              withPalindrome(query, NoFilters))))))

\* Lines 70-85
conflictingNeverDetected(filters) == FALSE

conflicting(filters) ==
    \/ /\ has(filters, "min_length") /\ has(filters, "max_length")
       /\ filters["min_length"] > filters["max_length"]
    \/ /\ has(filters, "word_count") /\ filters["word_count"] < 0

\* The outcome of the call: the exception thrown (NoResult when it returns) and
\* the filters returned.
parseNaturalQuery(query) ==
    LET filters == extractFilters(query)
    IN  IF conflicting(filters)
        THEN [error   |-> UnprocessableEntityException("Query parsed but resulted in conflicting filters"),
              filters |-> NoFilters]
        ELSE [error |-> NoResult, filters |-> filters]

----------------------------------------------------------------------------
(* StringAnalyzerService.getAllWithFilters *)

\* properties ->> 'is_palindrome': the JSON boolean as text.
jsonText(b) == IF b THEN <<"t","r","u","e">> ELSE <<"f","a","l","s","e">>

\* Lines 213-223
wherePalindrome(e, filters) ==
    has(filters, "is_palindrome")
        => jsonText(e.properties.is_palindrome) = jsonText(filters["is_palindrome"])

\* Lines 225-235
whereMinLengthExclusive(e, filters) ==
    has(filters, "min_length") => e.properties.length > filters["min_length"]

whereMinLength(e, filters) ==
    has(filters, "min_length") => e.properties.length >= filters["min_length"]

\* Lines 237-247
whereMaxLength(e, filters) ==
    has(filters, "max_length") => e.properties.length <= filters["max_length"]

\* Lines 249-259
whereWordCount(e, filters) ==
    has(filters, "word_count") => e.properties.word_count = filters["word_count"]

\* Lines 261-274: the jsonb operator ? asks whether the text is a key of the map.
whereContainsCharacter(e, filters) ==
    has(filters, "contains_character")
        => \E c \in DOMAIN e.properties.character_frequency_map :
               <<c>> = filters["contains_character"]

\* The rows query.getMany() returns.
getMany(filters) ==
    {e \in store : /\ wherePalindrome(e, filters)
                   /\ whereMinLength(e, filters)
                   /\ whereMaxLength(e, filters)
                   /\ whereWordCount(e, filters)
                   /\ whereContainsCharacter(e, filters)}

\* The outcome of the call: the exception thrown (NoResult when it returns) and
\* the rows returned.  The typeof checks of lines 214, 226, 238 and 250 never
\* fail on the filters the controllers and parseNaturalQuery build.
getAllWithFilters(filters) ==
    IF has(filters, "contains_character") /\ Len(filters["contains_character"]) # 1
    THEN [error |-> BadRequestException("Invalid query parameter values or types"), rows |-> {}]
    ELSE [error |-> NoResult, rows |-> getMany(filters)]

----------------------------------------------------------------------------
(* StringAnalyzerController.filterByNaturalLanguage *)

\* Line 95 of string-analyzer.controller.ts (line 37 of part_001):
\* !parsedFilters || Object.keys(parsedFilters).length === 0
isEmptyPredicateIgnored(filters) == FALSE

isEmptyPredicate(filters) == DOMAIN filters = {}

\* Lines 70-115 of string-analyzer.controller.ts
filterByNaturalLanguage(query) ==
    IF query = <<>> \/ trim(query) = <<>>
    THEN Response("filterByNaturalLanguage", query,
                  BadRequestException("Query parameter is required"), FALSE, NoFilters, {})
    ELSE LET parsed == parseNaturalQuery(trim(toLowerCase(query)))
             found  == getAllWithFilters(parsed.filters)
         IN  IF parsed.error # NoResult
             THEN Response("filterByNaturalLanguage", query, parsed.error, FALSE, NoFilters, {})
             ELSE IF isEmptyPredicate(parsed.filters)
             THEN Response("filterByNaturalLanguage", query,
                           BadRequestException("Unable to parse natural language query"),
                           FALSE, parsed.filters, {})
             ELSE IF found.error # NoResult
             THEN Response("filterByNaturalLanguage", query, found.error, TRUE, parsed.filters, {})
             ELSE Response("filterByNaturalLanguage", query, Ok, TRUE, parsed.filters, found.rows)

\* The earlier revision of the handler, lines 25-80 of part_001: it does not
\* trim the query, and it answers an empty result with 422.
filterByNaturalLanguageLegacy(query) ==
    IF query = <<>> \/ trim(query) = <<>>
    THEN Response("filterByNaturalLanguageLegacy", query,
                  BadRequestException("Query parameter is required"), FALSE, NoFilters, {})
    ELSE LET parsed == parseNaturalQuery(toLowerCase(query))
             found  == getAllWithFilters(parsed.filters)
         IN  IF parsed.error # NoResult
             THEN Response("filterByNaturalLanguageLegacy", query, parsed.error, FALSE, NoFilters, {})
             ELSE IF isEmptyPredicate(parsed.filters)
             THEN Response("filterByNaturalLanguageLegacy", query,
                           BadRequestException("Unable to parse natural language query"),
                           FALSE, parsed.filters, {})
             ELSE IF found.error # NoResult
             THEN Response("filterByNaturalLanguageLegacy", query, found.error, TRUE, parsed.filters, {})
             ELSE IF found.rows = {}
             THEN Response("filterByNaturalLanguageLegacy", query,
                           UnprocessableEntityException("Query parsed but resulted in conflicting filters"),
                           TRUE, parsed.filters, {})
             ELSE Response("filterByNaturalLanguageLegacy", query, Ok, TRUE, parsed.filters, found.rows)

----------------------------------------------------------------------------
(* StringAnalyzerController.getAllAnalyses *)

\* Number(text) for the decimal literals: an optional sign, digits, and an
\* optional fraction; the empty string (after trimming) is 0; anything else is
\* NaN.  floor is Math.floor of the number, integral whether it is an integer,
\* negative whether it is < 0.
unsigned(t) == IF t # <<>> /\ Head(t) \in {"-", "+"} THEN Tail(t) ELSE t

integerPart(t) ==
    IF IndexOf(unsigned(t), ".") = 0 THEN unsigned(t)
    ELSE SubSeq(unsigned(t), 1, IndexOf(unsigned(t), ".") - 1)

fractionPart(t) ==
    IF IndexOf(unsigned(t), ".") = 0 THEN <<>>
    ELSE SubSeq(unsigned(t), IndexOf(unsigned(t), ".") + 1, Len(unsigned(t)))

AllDigits(ds) == \A i \in DOMAIN ds : IsDigit(ds[i])

Number(text) ==
    LET t     == trim(text)
        ip    == integerPart(t)
        fp    == fractionPart(t)
        minus == t # <<>> /\ Head(t) = "-"
        frac  == \E i \in DOMAIN fp : fp[i] # "0"
    IN  IF t = <<>>
        THEN [nan |-> FALSE, negative |-> FALSE, integral |-> TRUE, floor |-> 0]
        ELSE IF ~ (AllDigits(ip) /\ AllDigits(fp) /\ (ip # <<>> \/ fp # <<>>))
        THEN [nan |-> TRUE, negative |-> FALSE, integral |-> FALSE, floor |-> 0]
        ELSE [nan      |-> FALSE,
              negative |-> minus /\ (parseInt(ip) > 0 \/ frac),
              integral |-> ~ frac,
              floor    |-> IF minus
                           THEN (IF frac THEN 0 - parseInt(ip) - 1 ELSE 0 - parseInt(ip))
                           ELSE parseInt(ip)]

\* A query string: a function from the names of the parameters given to their text.
supplied(params, key) == key \in DOMAIN params

NumericParams == <<"min_length", "max_length", "word_count">>

\* Lines 147-153 of string-analyzer.controller.ts
palindromeParamInvalid(params) ==
    supplied(params, "is_palindrome")
        /\ params["is_palindrome"] # <<"t","r","u","e">>
        /\ params["is_palindrome"] # <<"f","a","l","s","e">>

\* Lines 164-168
numericParamInvalid(params, key) ==
    supplied(params, key) /\ (Number(params[key]).nan \/ Number(params[key]).negative)

\* Lines 175-182
characterParamInvalid(params) ==
    supplied(params, "contains_character") /\ Len(params["contains_character"]) # 1

paramsInvalid(params) ==
    \/ palindromeParamInvalid(params)
    \/ \E i \in DOMAIN NumericParams : numericParamInvalid(params, NumericParams[i])
    \/ characterParamInvalid(params)

\* Lines 138-184: the filters object built from valid parameters: the boolean,
\* Math.floor of each number, the character lower-cased.
RECURSIVE withNumericParams(_, _, _)
withNumericParams(params, keys, filters) ==
    IF keys = <<>> THEN filters
    ELSE withNumericParams(params, Tail(keys),
            IF supplied(params, Head(keys))
            THEN setFilter(filters, Head(keys), Number(params[Head(keys)]).floor)
            ELSE filters)

withPalindromeParam(params, filters) ==
    IF supplied(params, "is_palindrome")
    THEN setFilter(filters, "is_palindrome", params["is_palindrome"] = <<"t","r","u","e">>)
    ELSE filters

withCharacterParam(params, filters) ==
    IF supplied(params, "contains_character")
    THEN setFilter(filters, "contains_character", toLowerCase(params["contains_character"]))
    ELSE filters

structuredFilters(params) ==
    withCharacterParam(params,
      withNumericParams(params, NumericParams,
        withPalindromeParam(params, NoFilters)))

\* Lines 130-205 of string-analyzer.controller.ts
getAllAnalyses(params) ==
    IF paramsInvalid(params)
    THEN Response("getAllAnalyses", params,
                  BadRequestException("Invalid query parameter values or types"), FALSE, NoFilters, {})
    ELSE LET found == getAllWithFilters(structuredFilters(params))
         IN  IF found.error # NoResult
             THEN Response("getAllAnalyses", params, found.error, TRUE, structuredFilters(params), {})
             ELSE Response("getAllAnalyses", params, Ok, TRUE, structuredFilters(params), found.rows)

\* The earlier revision of the handler, lines 87-161 of part_001: it keeps the
\* number as converted (here: requests whose numbers are integers) and answers
\* an empty result with 404.
getAllAnalysesLegacy(params) ==
    IF paramsInvalid(params)
    THEN Response("getAllAnalysesLegacy", params,
                  BadRequestException("Invalid query parameter values or types"), FALSE, NoFilters, {})
    ELSE LET found == getAllWithFilters(structuredFilters(params))
         IN  IF found.error # NoResult
             THEN Response("getAllAnalysesLegacy", params, found.error, TRUE, structuredFilters(params), {})
             ELSE IF found.rows = {}
             THEN Response("getAllAnalysesLegacy", params,
                           NotFoundException("String does not exist in the system"),
                           TRUE, structuredFilters(params), {})
             ELSE Response("getAllAnalysesLegacy", params, Ok, TRUE, structuredFilters(params), found.rows)

----------------------------------------------------------------------------
(* The write path with requests interleaving at their awaits *)

Init ==
    /\ store = {}
    /\ call = [p \in Procs |-> Idle]
    /\ resp = NoResp

Next ==
    \/ \E p \in Procs, value \in WriteValues : AnalyzeStart(p, value)
    \/ \E p \in Procs : AnalyzeSaveInsert(p)
    \/ \E p \in Procs : AnalyzeSaveUpdate(p)
    \/ \E p \in Procs : AnalyzeSaveRejected(p)
    \/ \E p \in Procs, value \in WriteValues : GetByValue(p, value)
    \/ \E p \in Procs, value \in WriteValues : DeleteStart(p, value)
    \/ \E p \in Procs : DeleteRemove(p)
    \/ \E p \in Procs : Return(p)

Spec == Init /\ [][Next]_vars

----------------------------------------------------------------------------
(* The filter paths, one request at a time *)

\* The values posted while the filters are exercised: lengths 1 to 3, one and
\* two words, both letter cases, punctuation alone and between letters; "bA"
\* and " b" share a digest and " " trims to the empty string.
FilterValues == {<<"a">>, <<"A","b">>, <<"a"," ","b">>, <<"A",",","a">>, <<",">>, <<"b","A">>, <<" ","b">>, <<" ">>}

\* The most rows the table holds.
MaxStore == 2

PalindromeStrings == {<<"t","r","u","e">>, <<"f","a","l","s","e">>, <<"y","e","s">>}

NumericStrings == {<<"2">>, <<"3">>, <<"3",".","7">>, <<>>, <<"-","1">>, <<"x">>}

CharacterStrings == {<<"a">>, <<"A">>, <<"a","b">>}

\* Each parameter is absent or has one of its strings.
Optional(key, strings) == {NoFilters} \cup {(key :> v) : v \in strings}

QueryStrings ==
    {p1 @@ p2 @@ p3 @@ p4 @@ p5 :
        p1 \in Optional("is_palindrome", PalindromeStrings),
        p2 \in Optional("min_length", NumericStrings),
        p3 \in Optional("max_length", NumericStrings),
        p4 \in Optional("word_count", NumericStrings),
        p5 \in Optional("contains_character", CharacterStrings)}

\* The earlier revision stores the number as converted: it is driven with the
\* query strings whose accepted numbers are integers.
AllIntegral(params) ==
    \A i \in DOMAIN NumericParams :
        supplied(params, NumericParams[i])
            => (Number(params[NumericParams[i]]).nan \/ Number(params[NumericParams[i]]).integral)

\* The filters getAllWithFilters is called with directly.
Predicates ==
    {p1 @@ p2 @@ p3 @@ p4 @@ p5 :
        p1 \in Optional("is_palindrome", BOOLEAN),
        p2 \in Optional("min_length", {2, 3}),
        p3 \in Optional("max_length", {2, 3}),
        p4 \in Optional("word_count", {1, 2}),
        p5 \in Optional("contains_character", {<<"a">>, <<"A">>, <<"b">>})}

FilterQueries ==
    {<<"p","a","l","i","n","d","r","o","m","i","c"," ","s","t","r","i","n","g","s">>,
     <<"s","i","n","g","l","e"," ","w","o","r","d"," ","s","t","r","i","n","g","s">>,
     <<"s","t","r","i","n","g","s"," ","l","o","n","g","e","r"," ","t","h","a","n"," ","2">>,
     <<"s","t","r","i","n","g","s"," ","s","h","o","r","t","e","r"," ","t","h","a","n"," ","2">>,
     <<"s","t","r","i","n","g","s"," ","c","o","n","t","a","i","n","i","n","g"," ","t","h","e"," ","l","e","t","t","e","r"," ","A">>,
     <<"a","s","d","k","j","a","s","d","j">>,
     <<"l","o","n","g","e","r"," ","t","h","a","n"," ","1","0"," ","a","n","d"," ","s","h","o","r","t","e","r"," ","t","h","a","n"," ","5">>,
     <<"2"," ","w","o","r","d","s"," ","c","o","n","t","a","i","n","i","n","g"," ","b">>,
     <<" ">>}

\* POST /strings, lines 28-61 of the controller and analyzeAndSave, with no
\* other request in between.
Analyze(value) ==
    /\ analyzePreCheck(value) = NoResult => Cardinality(store) < MaxStore
    /\ store' = IF analyzePreCheck(value) = NoResult
                THEN repoInsert(createEntity(value))
                ELSE store
    /\ resp' = Response("analyze", value,
                        IF analyzePreCheck(value) = NoResult
                        THEN Created
                        ELSE analyzeCatch(analyzePreCheck(value)),
                        FALSE, NoFilters, {})
    /\ UNCHANGED call

\* DELETE /strings/:value, lines 212-217 of the controller and deleteByValue.
DeleteAnalysis(value) ==
    /\ store' = IF repoFindByValue(value) = {} THEN store ELSE repoRemove(sha256Hash(value))
    /\ resp' = Response("deleteAnalysis", value,
                        IF repoFindByValue(value) = {}
                        THEN NotFoundException("String does not exist in the system")
                        ELSE NoContent,
                        FALSE, NoFilters, {})
    /\ UNCHANGED call

\* GET /strings/:value, lines 120-123 of the controller and getbyValue.
GetAnalysis(value) ==
    /\ resp' = Response("getAnalysis", value,
                        IF repoFindByValue(value) = {}
                        THEN NotFoundException("String does not exist in the system")
                        ELSE Ok,
                        FALSE, NoFilters, repoFindByValue(value))
    /\ UNCHANGED <<store, call>>

GetAllAnalyses(params) ==
    /\ resp' = getAllAnalyses(params)
    /\ UNCHANGED <<store, call>>

GetAllAnalysesLegacy(params) ==
    /\ AllIntegral(params)
    /\ resp' = getAllAnalysesLegacy(params)
    /\ UNCHANGED <<store, call>>

FilterByNaturalLanguage(query) ==
    /\ resp' = filterByNaturalLanguage(query)
    /\ UNCHANGED <<store, call>>

FilterByNaturalLanguageLegacy(query) ==
    /\ resp' = filterByNaturalLanguageLegacy(query)
    /\ UNCHANGED <<store, call>>

\* The service method called with a filters object.
GetAllWithFilters(filters) ==
    /\ resp' = LET found == getAllWithFilters(filters)
                IN  Response("getAllWithFilters", filters,
                             IF found.error = NoResult THEN Ok ELSE found.error,
                             TRUE, filters, found.rows)
    /\ UNCHANGED <<store, call>>

\* The service method called with a query.
ParseNaturalQuery(query) ==
    /\ resp' = LET parsed == parseNaturalQuery(query)
                IN  Response("parseNaturalQuery", query,
                             IF parsed.error = NoResult THEN Ok ELSE parsed.error,
                             FALSE, parsed.filters, {})
    /\ UNCHANGED <<store, call>>

\* The response is sent.
Respond ==
    /\ resp # NoResp
    /\ resp' = NoResp
    /\ UNCHANGED <<store, call>>

NextFilter ==
    \/ resp = NoResp /\ \E value \in FilterValues : Analyze(value)
    \/ resp = NoResp /\ \E value \in FilterValues : DeleteAnalysis(value)
    \/ resp = NoResp /\ \E value \in FilterValues : GetAnalysis(value)
    \/ resp = NoResp /\ \E params \in QueryStrings : GetAllAnalyses(params)
    \/ resp = NoResp /\ \E params \in QueryStrings : GetAllAnalysesLegacy(params)
    \/ resp = NoResp /\ \E query \in FilterQueries : FilterByNaturalLanguage(query)
    \/ resp = NoResp /\ \E query \in FilterQueries : FilterByNaturalLanguageLegacy(query)
    \/ resp = NoResp /\ \E filters \in Predicates : GetAllWithFilters(filters)
    \/ Respond

SpecFilter == Init /\ [][NextFilter]_vars

----------------------------------------------------------------------------
(* The translator on its own: queries put together from phrases *)

\* Phrases with each keyword of the translator, with and without what it needs to
\* match, and a word it does not know.
Phrases ==
    {<<"l","o","n","g","e","r"," ","t","h","a","n"," ","2">>,
     <<"m","o","r","e"," ","t","h","a","n"," ","1","0">>,
     <<"s","h","o","r","t","e","r"," ","t","h","a","n"," ","5">>,
     <<"l","e","s","s"," ","t","h","a","n"," ","0">>,
     <<"l","o","n","g","e","r"," ","t","h","a","n">>,
     <<"p","a","l","i","n","d","r","o","m","i","c">>,
     <<"s","i","n","g","l","e"," ","w","o","r","d">>,
     <<"2"," ","w","o","r","d","s">>,
     <<"c","o","n","t","a","i","n","i","n","g"," ","t","h","e"," ","l","e","t","t","e","r"," ","Z">>,
     <<"c","o","n","t","a","i","n","s"," ","b">>,
     <<"t","h","a","t"," ","c","o","n","t","a","i","n"," ","t","h","e"," ","f","i","r","s","t"," ","v","o","w","e","l">>,
     <<"c","o","n","t","a","i","n","i","n","g"," ","t","h","e"," ","f","i","r","s","t"," ","v","o","w","e","l">>,
     <<"a","s","d","k","j","a","s","d","j">>}

\* The most phrases in a query.
MaxPhrases == 2

RECURSIVE joinPhrases(_)
joinPhrases(ps) == IF Len(ps) = 1 THEN ps[1]
                   ELSE ps[1] \o <<" ">> \o joinPhrases(Tail(ps))

Queries == UNION {{joinPhrases(ps) : ps \in [1..k -> Phrases]} : k \in 1..MaxPhrases}

NextNL ==
    \/ resp = NoResp /\ \E query \in Queries : ParseNaturalQuery(query)
    \/ resp = NoResp /\ \E query \in Queries : FilterByNaturalLanguage(query)
    \/ resp = NoResp /\ \E query \in Queries : FilterByNaturalLanguageLegacy(query)
    \/ Respond

SpecNL == Init /\ [][NextNL]_vars

----------------------------------------------------------------------------
(* Properties of the write path *)

NoTwoEntriesSameValue == \A e1, e2 \in store : e1.value = e2.value => e1 = e2

\* C1: when an entry with value v (non-empty after trimming) is stored, a call
\* analyzeAndSave(v) ends with ConflictException and leaves the store as it
\* was; and the store never holds two entries with the same value.
C1_DuplicateRejected ==
    /\ [][\A p \in Procs, v \in WriteValues :
            (AnalyzeStart(p, v) /\ trim(v) # <<>> /\ repoFindByValue(v) # {})
                => (call'[p].pc = "done" /\ call'[p].result.kind = "Conflict" /\ store' = store)]_vars
    /\ []NoTwoEntriesSameValue

\* A call analyzeAndSave(v) has ended with ConflictException while v is stored.
C1_Witness ==
    \E p \in Procs :
        /\ call[p].pc = "done" /\ call[p].op = "analyze"
        /\ call[p].result.kind = "Conflict"
        /\ repoFindByValue(call[p].value) # {}

\* C2: a call that passed the pre-check and then finds, at its save, that
\* another call has stored the same value in the meantime ends with
\* ConflictException, as a pre-check duplicate does, and leaves the store with
\* the one entry.
C2_RaceLoserIsDuplicate ==
    [][\A p \in Procs :
          (call[p].pc = "checked" /\ repoFindByValue(call[p].value) # {} /\ call'[p].pc = "done")
              => (call'[p].result.kind = "Conflict" /\ store' = store)]_vars

\* C3: analyzeAndSave(v) ends with ConflictException only when a stored entry
\* has exactly the value v; a stored entry with another value and the same
\* digest does not make v a duplicate.
C3_DuplicateOnlyOnEqualValue ==
    [][\A p \in Procs, v \in WriteValues :
          (AnalyzeStart(p, v) /\ call'[p].result.kind = "Conflict")
              => repoFindByValue(v) # {}]_vars

----------------------------------------------------------------------------
(* Properties of the filter paths *)

\* An entry satisfies a predicate: every constraint present holds.
Matches(e, f) ==
    /\ "is_palindrome" \in DOMAIN f => e.properties.is_palindrome = f["is_palindrome"]
    /\ "min_length" \in DOMAIN f => f["min_length"] <= e.properties.length
    /\ "max_length" \in DOMAIN f => e.properties.length <= f["max_length"]
    /\ "word_count" \in DOMAIN f => e.properties.word_count = f["word_count"]
    /\ "contains_character" \in DOMAIN f =>
           /\ Len(f["contains_character"]) = 1
           /\ f["contains_character"][1] \in DOMAIN e.properties.character_frequency_map

ControllerFilterHandlers ==
    {"getAllAnalyses", "getAllAnalysesLegacy",
     "filterByNaturalLanguage", "filterByNaturalLanguageLegacy"}

\* C4: a valid filter (structured or translated) that no stored entry matches
\* is answered with success, an empty data list and count 0, never with
\* NotFound or any other error.
C4_EmptyResultIsSuccess ==
    (/\ resp.handler \in ControllerFilterHandlers
     /\ resp.queried
     /\ \A e \in store : ~ Matches(e, resp.filters))
        => (resp.kind = "Ok" /\ resp.data = {} /\ resp.count = 0)

\* C9: getAllWithFilters returns exactly the stored entries that satisfy every
\* constraint present in the predicate; the empty predicate returns them all.
C9_ExactlyTheMatchingEntries ==
    resp.handler = "getAllWithFilters"
        => /\ resp.kind = "Ok"
           /\ resp.data = {e \in store : Matches(e, resp.filters)}
           /\ resp.count = Cardinality({e \in store : Matches(e, resp.filters)})
           /\ DOMAIN resp.filters = {} => resp.data = store

\* A predicate of several constraints has kept some of the stored entries and
\* dropped others, one of them for its length alone.
C9_Witness ==
    /\ resp.handler = "getAllWithFilters"
    /\ Cardinality(DOMAIN resp.filters) >= 2
    /\ resp.data # {}
    /\ resp.data # store
    /\ has(resp.filters, "min_length")
    /\ \E e \in resp.data : e.properties.length = resp.filters["min_length"]

\* The number a parameter denotes is greater than the number another denotes.
DenotesGreater(a, b) ==
    /\ ~ Number(a).nan /\ ~ Number(b).nan
    /\ \/ Number(a).floor > Number(b).floor
       \/ Number(a).floor = Number(b).floor /\ ~ Number(a).integral /\ Number(b).integral

\* C10: a structured request whose min_length is greater than its max_length
\* is rejected as an invalid predicate, and no query is run on the store.
C10_StructuredConflictRejected ==
    (/\ resp.handler \in {"getAllAnalyses", "getAllAnalysesLegacy"}
     /\ "min_length" \in DOMAIN resp.input
     /\ "max_length" \in DOMAIN resp.input
     /\ DenotesGreater(resp.input["min_length"], resp.input["max_length"]))
        => (resp.kind \in {"BadRequest", "UnprocessableEntity"} /\ ~ resp.queried)

----------------------------------------------------------------------------
(* Properties of the translator *)

\* The keyword kw (lower case) is at position i of q, letter case ignored.
KeywordAt(q, i, kw) ==
    /\ i + Len(kw) - 1 <= Len(q)
    /\ toLowerCaseChar(q[i]) = kw[1]
    /\ SubSeq(toLowerCase(q), i, i + Len(kw) - 1) = kw

\* The text lit (lower case) occurs in q, letter case ignored.
Mentions(q, lit) == \E i \in 1..Len(q) : KeywordAt(q, i, lit)

\* The positions j that whitespace, and nothing else, separates from the
\* keyword kw at position i of q.
AfterKeywordAt(q, i, kw) ==
    {j \in (i + Len(kw) + 1)..Len(q) : \A k \in (i + Len(kw))..(j - 1) : IsWhitespace(q[k])}

LongerKeywords == {<<"l","o","n","g","e","r"," ","t","h","a","n">>, <<"m","o","r","e"," ","t","h","a","n">>}

ShorterKeywords == {<<"s","h","o","r","t","e","r"," ","t","h","a","n">>, <<"l","e","s","s"," ","t","h","a","n">>}

ContainsKeywords ==
    {<<"c","o","n","t","a","i","n","i","n","g"," ","t","h","e"," ","l","e","t","t","e","r">>,
     <<"c","o","n","t","a","i","n","i","n","g">>,
     <<"c","o","n","t","a","i","n","s">>}

\* A phrase "<keyword> <digits>" starts at position i.
LengthPhraseAt(q, i, kws) ==
    \E kw \in kws : KeywordAt(q, i, kw) /\ \E j \in AfterKeywordAt(q, i, kw) : IsDigit(q[j])

\* The decimal numeral of a natural number.
RECURSIVE decimal(_)
decimal(n) == IF n < 10 THEN << Digit[n + 1] >> ELSE Append(decimal(n \div 10), Digit[(n % 10) + 1])

\* The phrase "<keyword> n" starts at position i.
LengthPhraseOfAt(q, i, kws, n) ==
    \E kw \in kws :
        /\ KeywordAt(q, i, kw)
        /\ \E j \in AfterKeywordAt(q, i, kw) :
              /\ j + Len(decimal(n)) - 1 <= Len(q)
              /\ SubSeq(q, j, j + Len(decimal(n)) - 1) = decimal(n)
              /\ (j + Len(decimal(n)) > Len(q) \/ ~ IsDigit(q[j + Len(decimal(n))]))

\* "<digits> word" occurs in q.
WordCountPhrase(q) ==
    \E i, j \in 1..Len(q) :
        /\ IsDigit(q[i])
        /\ j > i + 1
        /\ \A k \in (i + 1)..(j - 1) : IsWhitespace(q[k])
        /\ j + 3 <= Len(q)
        /\ SubSeq(toLowerCase(q), j, j + 3) = <<"w","o","r","d">>

\* A phrase "<contains keyword> <letter ...>" occurs in q.
LetterPhrase(q) ==
    \E i \in 1..Len(q), kw \in ContainsKeywords :
        KeywordAt(q, i, kw) /\ \E j \in AfterKeywordAt(q, i, kw) : IsLetter(q[j])

\* None of the translator's rules applies to q.
NoRuleFires(q) ==
    /\ ~ Mentions(q, <<"p","a","l","i","n","d","r","o","m">>)
    /\ ~ Mentions(q, <<"s","i","n","g","l","e"," ","w","o","r","d">>)
    /\ ~ WordCountPhrase(q)
    /\ \A i \in 1..Len(q) : ~ LengthPhraseAt(q, i, LongerKeywords \cup ShorterKeywords)
    /\ ~ LetterPhrase(q)
    /\ ~ Mentions(q, <<"f","i","r","s","t"," ","v","o","w","e","l">>)

NaturalLanguageHandlers == {"filterByNaturalLanguage", "filterByNaturalLanguageLegacy"}

\* C5: a non-blank query to which none of the translator's rules applies is
\* answered with BadRequestException 'Unable to parse natural language query',
\* not with the conflicting-filters error, and no query is run on the store.
C5_NoRuleIsUnparseable ==
    (/\ resp.handler \in NaturalLanguageHandlers
     /\ trim(resp.input) # <<>>
     /\ NoRuleFires(resp.input))
        => /\ resp.kind = "BadRequest"
           /\ resp.msg = "Unable to parse natural language query"
           /\ ~ resp.queried

\* Both revisions of the handler have answered a query that has a keyword but
\* not what the rule needs after it.
C5_Witness ==
    /\ resp.handler \in NaturalLanguageHandlers
    /\ Mentions(resp.input, <<"l","o","n","g","e","r"," ","t","h","a","n">>)
    /\ NoRuleFires(resp.input)
    /\ resp.kind = "BadRequest"

\* The numbers the phrases of the queries name.
PhraseNumbers == {0, 2, 5, 10}

\* The query of the example is refused.
LongerThan10ShorterThan5IsAConflict ==
    parseNaturalQuery(<<"s","t","r","i","n","g","s"," ","l","o","n","g","e","r"," ","t","h","a","n"," ","1","0"," ","a","n","d"," ","s","h","o","r","t","e","r"," ","t","h","a","n"," ","5">>).error.kind
        = "UnprocessableEntity"

\* C6: when the predicate extracted from a query has min_length > max_length or
\* a negative word_count, parseNaturalQuery throws the conflicting-filters
\* exception; a predicate it returns with both bounds has min_length <=
\* max_length; 'strings longer than 10 and shorter than 5' is a conflict.
C6_ConflictsAreSignalled ==
    /\ resp.handler = "parseNaturalQuery" =>
          LET f == extractFilters(resp.input)
          IN  /\ (has(f, "min_length") /\ has(f, "max_length") /\ f["min_length"] > f["max_length"])
                    => (resp.kind = "UnprocessableEntity"
                        /\ resp.msg = "Query parsed but resulted in conflicting filters")
              /\ (has(f, "word_count") /\ f["word_count"] < 0)
                    => resp.kind = "UnprocessableEntity"
              /\ (resp.kind = "Ok" /\ has(resp.filters, "min_length") /\ has(resp.filters, "max_length"))
                    => resp.filters["min_length"] <= resp.filters["max_length"]
    /\ LongerThan10ShorterThan5IsAConflict

\* A query with a longer-than and a shorter-than phrase that exclude each
\* other has been refused, and one whose phrases agree has been returned.
C6_Witness ==
    /\ resp.handler = "parseNaturalQuery"
    /\ \E i, j \in 1..Len(resp.input) :
          /\ LengthPhraseOfAt(resp.input, i, LongerKeywords, 10)
          /\ LengthPhraseOfAt(resp.input, j, ShorterKeywords, 5)
    /\ resp.kind = "UnprocessableEntity"

\* C7 as stated: every phrase 'longer than N' or 'more than N' in a query gives
\* min_length = N + 1, every phrase 'shorter than N' or 'less than N' gives
\* max_length = N - 1, and without such a phrase the bound is absent.
C7_EveryPhraseSetsTheBound ==
    resp.handler = "parseNaturalQuery" =>
        LET f == extractFilters(resp.input)
        IN  \A i \in {k \in 1..Len(resp.input) :
                          LengthPhraseAt(resp.input, k, LongerKeywords \cup ShorterKeywords)},
               n \in PhraseNumbers :
                /\ LengthPhraseOfAt(resp.input, i, LongerKeywords, n)
                      => (has(f, "min_length") /\ f["min_length"] = n + 1)
                /\ LengthPhraseOfAt(resp.input, i, ShorterKeywords, n)
                      => (has(f, "max_length") /\ f["max_length"] = n - 1)

\* No phrase of these keywords starts before position i.
FirstPhraseAt(q, i, kws) == \A k \in 1..(i - 1) : ~ LengthPhraseAt(q, k, kws)

\* C7 as amended: the first phrase 'longer than N' or 'more than N' of a query
\* gives min_length = N + 1, the first phrase 'shorter than N' or 'less than N'
\* gives max_length = N - 1, and without such a phrase the bound is absent.
C7_FirstPhraseSetsTheBound ==
    resp.handler = "parseNaturalQuery" =>
        LET f == extractFilters(resp.input)
        IN  /\ \A i \in {k \in 1..Len(resp.input) :
                              LengthPhraseAt(resp.input, k, LongerKeywords \cup ShorterKeywords)},
                   n \in PhraseNumbers :
                  /\ (LengthPhraseOfAt(resp.input, i, LongerKeywords, n)
                         /\ FirstPhraseAt(resp.input, i, LongerKeywords))
                        => (has(f, "min_length") /\ f["min_length"] = n + 1)
                  /\ (LengthPhraseOfAt(resp.input, i, ShorterKeywords, n)
                         /\ FirstPhraseAt(resp.input, i, ShorterKeywords))
                        => (has(f, "max_length") /\ f["max_length"] = n - 1)
            /\ (\A i \in 1..Len(resp.input) : ~ LengthPhraseAt(resp.input, i, LongerKeywords))
                  => ~ has(f, "min_length")
            /\ (\A i \in 1..Len(resp.input) : ~ LengthPhraseAt(resp.input, i, ShorterKeywords))
                  => ~ has(f, "max_length")

\* A query with 'longer than 2' before 'more than 10' has been translated to
\* min_length = 3.
C7_Witness ==
    /\ resp.handler = "parseNaturalQuery"
    /\ \E i, j \in 1..Len(resp.input) :
          /\ i < j
          /\ LengthPhraseOfAt(resp.input, i, LongerKeywords, 2)
          /\ LengthPhraseOfAt(resp.input, j, LongerKeywords, 10)
    /\ resp.kind = "Ok"
    /\ has(resp.filters, "min_length")
    /\ resp.filters["min_length"] = 3

\* The phrase "<contains keyword> x" with the single letter x starts at i.
NamesLetterAt(q, i, x) ==
    \E kw \in ContainsKeywords :
        /\ KeywordAt(q, i, kw)
        /\ \E j \in AfterKeywordAt(q, i, kw) :
              q[j] = x /\ (j = Len(q) \/ ~ IsLetter(q[j + 1]))

NamesALetter(q) == \E i \in 1..Len(q), x \in LowerLetters \cup UpperLetters : NamesLetterAt(q, i, x)

\* C8: a query whose first phrase naming a letter names x gets
\* contains_character = x in lower case; a query that mentions 'first vowel'
\* and names no letter gets contains_character = 'a'.
C8_NamedLetterOrFirstVowel ==
    resp.handler = "parseNaturalQuery" =>
        LET f == extractFilters(resp.input)
        IN  /\ \A i \in 1..Len(resp.input), x \in LowerLetters \cup UpperLetters :
                  (NamesLetterAt(resp.input, i, x)
                      /\ \A k \in 1..(i - 1), y \in LowerLetters \cup UpperLetters :
                             ~ NamesLetterAt(resp.input, k, y))
                     => (has(f, "contains_character")
                         /\ f["contains_character"] = << toLowerCaseChar(x) >>)
            /\ (Mentions(resp.input, <<"f","i","r","s","t"," ","v","o","w","e","l">>)
                   /\ ~ NamesALetter(resp.input))
                  => (has(f, "contains_character") /\ f["contains_character"] = <<"a">>)


----------------------------------------------------------------------------
(* Properties of the structured path's validation *)

\* The text denotes a non-negative integer: decimal digits, at least one.
DenotesNonNegativeInteger(t) == t # <<>> /\ AllDigits(t)

\* Some supplied field breaks its rule.
BreaksAFieldRule(params) ==
    \/ /\ "is_palindrome" \in DOMAIN params
       /\ params["is_palindrome"] \notin {<<"t","r","u","e">>, <<"f","a","l","s","e">>}
    \/ \E key \in {"min_length", "max_length", "word_count"} :
          key \in DOMAIN params /\ ~ DenotesNonNegativeInteger(params[key])
    \/ /\ "contains_character" \in DOMAIN params
       /\ Len(params["contains_character"]) # 1

\* C11: a structured request in which a supplied field breaks its rule
\* (is_palindrome not 'true' or 'false'; min_length, max_length or word_count
\* not a non-negative integer, 3.7 and the empty string included;
\* contains_character not one character) is answered with BadRequestException
\* and no query is run on the store.
C11_EachFieldValidated ==
    (resp.handler \in {"getAllAnalyses", "getAllAnalysesLegacy"} /\ BreaksAFieldRule(resp.input))
        => (resp.kind = "BadRequest" /\ ~ resp.queried)


----------------------------------------------------------------------------
(* Properties of the analysis *)

\* s with every character that is no ASCII letter or digit removed, in lower case.
LettersAndDigitsLowered(s) ==
    toLowerCase(SelectSeq(s, LAMBDA c : IsLowerLetter(c) \/ IsUpperLetter(c) \/ IsDigit(c)))

ReadsTheSameBackwards(n) == \A i \in 1..Len(n) : n[i] = n[Len(n) + 1 - i]

\* The analysis of the two sentences of the examples.
MadamIsAPalindrome == properties(<<"M","a","d","a","m",","," ","I","'","m"," ","A","d","a","m">>).is_palindrome

HelloIsNone == ~ properties(<<"h","e","l","l","o">>).is_palindrome

\* C12: the is_palindrome stored for a value s says whether s, lower-cased and
\* stripped of everything but a-z and 0-9, equals its reverse; a value with no
\* letter or digit normalizes to the empty sequence and is a palindrome;
\* "Madam, I'm Adam" is a palindrome and "hello" is not.
C12_PalindromeOfNormalizedValue ==
    /\ \A e \in store :
          /\ e.properties.is_palindrome = ReadsTheSameBackwards(LettersAndDigitsLowered(e.value))
          /\ (\A i \in 1..Len(e.value) : ~ IsLetter(e.value[i]) /\ ~ IsDigit(e.value[i]))
                => (normalized(e.value) = <<>> /\ e.properties.is_palindrome)
    /\ MadamIsAPalindrome
    /\ HelloIsNone

\* Stored together: a value that is a palindrome only once its punctuation is
\* stripped and its letters lower-cased, and a value that is none.
C12_Witness ==
    /\ \E e \in store : e.value = <<"A",",","a">> /\ e.properties.is_palindrome
    /\ \E e \in store : ~ e.properties.is_palindrome


----------------------------------------------------------------------------
(* Properties of deletion and lookup *)

\* C13: deleting a stored v removes the entry with value v and no other, and
\* in the store it leaves a lookup of v finds nothing and analyzeAndSave(v)
\* passes its checks; a lookup of an absent v ends with NotFoundException and
\* analyzeAndSave of a v that passes its checks stores it; deleting or looking
\* up an absent v ends with NotFoundException and leaves the store as it was.
C13_DeleteAndLookupFrame ==
    [][resp'.handler \in {"deleteAnalysis", "getAnalysis", "analyze"} =>
          \A v \in FilterValues : v = resp'.input =>
              /\ (DeleteAnalysis(v) /\ repoFindByValue(v) # {})
                    => /\ resp'.kind = "NoContent"
                       /\ store' = {e \in store : e.value # v}
                       /\ (repoFindByValue(v) = {})'
                       /\ (analyzePreCheck(v) = NoResult)'
              /\ (DeleteAnalysis(v) /\ repoFindByValue(v) = {})
                    => (resp'.kind = "NotFound" /\ store' = store)
              /\ (GetAnalysis(v) /\ repoFindByValue(v) = {})
                    => (resp'.kind = "NotFound" /\ store' = store)
              /\ (GetAnalysis(v) /\ repoFindByValue(v) # {})
                    => (resp'.kind = "Ok" /\ resp'.data = repoFindByValue(v) /\ store' = store)
              /\ (Analyze(v) /\ analyzePreCheck(v) = NoResult)
                    => (resp'.kind = "Created" /\ store' = store \cup {createEntity(v)})]_vars

\* One of two stored entries has been deleted and the other is still stored.
C13_Witness ==
    /\ resp.handler = "deleteAnalysis"
    /\ resp.kind = "NoContent"
    /\ repoFindByValue(resp.input) = {}
    /\ store # {}


----------------------------------------------------------------------------
(* Properties shared by the two filter paths *)

\* C14: a predicate parseNaturalQuery returns has min_length, max_length and
\* word_count, where present, at least 0 (a query 'less than 0' or 'shorter
\* than 0' returns no max_length of -1), and contains_character, where
\* present, one lower-case letter.
C14_ParsedPredicateIsValid ==
    (resp.handler = "parseNaturalQuery" /\ resp.kind = "Ok") =>
        /\ \A key \in {"min_length", "max_length", "word_count"} :
               has(resp.filters, key) => resp.filters[key] >= 0
        /\ has(resp.filters, "contains_character") =>
               /\ Len(resp.filters["contains_character"]) = 1
               /\ IsLowerLetter(resp.filters["contains_character"][1])

\* The value has the letter c, in either case.
HasLetter(value, c) ==
    \E i \in 1..Len(value) : toLowerCaseChar(value[i]) = toLowerCaseChar(c)

\* C15: a filter of contains_character alone, for a letter c given in either
\* case on the structured path or named in a natural-language query, returns
\* every stored entry whose value has c in either case.
C15_ContainsCharacterIgnoresCase ==
    (/\ resp.handler \in ControllerFilterHandlers
     /\ resp.queried
     /\ DOMAIN resp.filters = {"contains_character"}
     /\ IsLetter(resp.filters["contains_character"][1]))
        => \A e \in store :
               HasLetter(e.value, resp.filters["contains_character"][1]) => e \in resp.data

=============================================================================
